---- MODULE Spec2Model ----
(***************************************************************************)
(* Ticket system backend: the dispatcher of src/src/handlers/index.ts, the *)
(* TicketService of src/src/services/ticket-service.ts and the DynamoDB    *)
(* table "dyn-tickets" they share.  Every request runs in its own          *)
(* invocation (a slot); an invocation runs synchronously up to its single  *)
(* `await docClient.send(command)`, the table evaluates the command        *)
(* atomically, and the invocation then builds its response.                *)
(***************************************************************************)
EXTENDS Integers, Sequences, FiniteSets, TLC

\* ---------------------------------------------------------------- bounds
MaxSlots == 2
MaxIds == 2
MaxClock == 1
MaxRequests == 3

Slots == 1..MaxSlots
Ids == 1..MaxIds
Times == 0..MaxClock

\* ------------------------------------------------------- values and enums
NoId == -1
BadId == 0
Null == "null"

TicketStatus == {"NEW", "OPEN", "IN_PROGRESS", "RESOLVED", "CLOSED"}
TicketPriority == {"LOW", "MEDIUM", "HIGH", "CRITICAL"}
TicketType == {"INCIDENT", "SERVICE_REQUEST", "QUESTION"}
Uuids == {"u1", "u2", "u3"}

MutableFields == {"title", "description", "status", "reporterId", "assignedToId", "priority", "type"}
SchemaKeys == <<"title", "description", "status", "reporterId", "assignedToId", "priority", "type">>

\* --------------------------------------------------------------- schemas
CreateTicketRequest ==
  [name |-> "create",
   required |-> {"title", "description", "reporterId"},
   defaults |-> [status |-> "NEW", assignedToId |-> Null, priority |-> "MEDIUM", type |-> "INCIDENT"],
   atLeastOne |-> FALSE]

UpdateTicketRequest ==
  [name |-> "update",
   required |-> {"title", "description", "status", "reporterId", "priority", "type"},
   defaults |-> <<>>,
   atLeastOne |-> FALSE]

PatchTicketRequest ==
  [name |-> "patch",
   required |-> {},
   defaults |-> <<>>,
   atLeastOne |-> TRUE]

\* The violation zod reports for value v of field f, "" when v is accepted.
FieldViolation(f, v) ==
  CASE f \in {"title", "description"} -> IF v = "" THEN "too_small" ELSE ""
    [] f = "status" -> IF v \in TicketStatus THEN "" ELSE "invalid_value"
    [] f = "priority" -> IF v \in TicketPriority THEN "" ELSE "invalid_value"
    [] f = "type" -> IF v \in TicketType THEN "" ELSE "invalid_value"
    [] f = "reporterId" -> IF v \in Uuids THEN "" ELSE "invalid_format"
    [] f = "assignedToId" -> IF v = Null \/ v \in Uuids THEN "" ELSE "invalid_format"

RECURSIVE KeyIssues(_, _, _)
KeyIssues(schema, obj, i) ==
  IF i > Len(SchemaKeys) THEN <<>>
  ELSE LET f == SchemaKeys[i]
           here == IF f \in DOMAIN obj
                     THEN IF FieldViolation(f, obj[f]) = "" THEN <<>>
                          ELSE <<[path |-> f, code |-> FieldViolation(f, obj[f])]>>
                     ELSE IF f \in schema.required
                            THEN <<[path |-> f, code |-> "invalid_type"]>>
                            ELSE <<>>
       IN here \o KeyIssues(schema, obj, i + 1)

\* schema.parse(obj): the issues in key order, then unknown keys (strict
\* object), then the at-least-one-field refinement of the patch schema.
SchemaParse(schema, obj) ==
  LET fieldIssues == KeyIssues(schema, obj, 1)
      unknown == IF DOMAIN obj \subseteq MutableFields THEN <<>>
                 ELSE <<[path |-> "", code |-> "unrecognized_keys"]>>
      objIssues == fieldIssues \o unknown
      refineIssues == IF objIssues = <<>> /\ schema.atLeastOne /\ DOMAIN obj = {}
                        THEN <<[path |-> "", code |-> "custom"]>>
                        ELSE <<>>
      issues == objIssues \o refineIssues
      keys == DOMAIN obj \cup DOMAIN schema.defaults
  IN [success |-> issues = <<>>,
      issues |-> issues,
      data |-> [f \in keys |-> IF f \in DOMAIN obj THEN obj[f] ELSE schema.defaults[f]]]

TicketIdParam(id) ==
  [success |-> id \in Ids,
   issues |-> IF id \in Ids THEN <<>> ELSE <<[path |-> "id", code |-> "invalid_format"]>>,
   data |-> [id |-> id]]

\* ---------------------------------------------------------------- errors
HttpError(statusCode, code, message, details) ==
  [class |-> "HttpError", statusCode |-> statusCode, code |-> code,
   message |-> message, details |-> details]

BadRequestError(code, message, details) == HttpError(400, code, message, <<details>>)

NotFoundError(code, message) == HttpError(404, code, message, <<>>)

SyntaxError == [class |-> "SyntaxError"]

StoreError == [class |-> "Error"]

ErrorCodes ==
  [BAD_REQUEST |-> "bad_request", TICKET_NOT_FOUND |-> "ticket_not_found",
   PATH_NOT_FOUND |-> "path_not_found", INTERNAL_SERVER_ERROR |-> "internal_server_error"]

\* ------------------------------------------------------------- DynamoDB
NoCmd == [api |-> "none", op |-> "none"]

\* A PutCommand that stores the item without its updatedAt.
PutItemDropsUpdatedAt(s, item) ==
  [k \in DOMAIN s \cup {item.id} |->
     IF k = item.id THEN [a \in DOMAIN item \ {"updatedAt"} |-> item[a]] ELSE s[k]]

\* PutCommand: the item replaces whatever is stored under its key.
PutItem(s, item) ==
  [k \in DOMAIN s \cup {item.id} |-> IF k = item.id THEN item ELSE s[k]]

\* attribute_exists(id) of a ConditionExpression.
ConditionHolds(s, c) == c.ConditionExpression => c.Key \in DOMAIN s

\* UpdateCommand with a SET expression: the named attributes are written on
\* the item under Key (an item is created when none is there and no
\* condition forbids it).
UpdateItem(s, c) ==
  LET old == IF c.Key \in DOMAIN s THEN s[c.Key] ELSE [id |-> c.Key]
      new == [a \in DOMAIN old \cup DOMAIN c.set |->
                IF a \in DOMAIN c.set THEN c.set[a] ELSE old[a]]
  IN [k \in DOMAIN s \cup {c.Key} |-> IF k = c.Key THEN new ELSE s[k]]

DeleteItem(s, c) == [k \in DOMAIN s \ {c.Key} |-> s[k]]

\* Execute(s, c): the table after command c and what docClient.send yields.
Execute(s, c) ==
  CASE c.op = "PutCommand" ->
         [store |-> PutItem(s, c.Item), ok |-> TRUE, out |-> <<>>]
    [] c.op = "GetCommand" ->
         [store |-> s, ok |-> TRUE,
          out |-> IF c.Key \in DOMAIN s THEN <<s[c.Key]>> ELSE <<>>]
    [] c.op = "ScanCommand" ->
         [store |-> s, ok |-> TRUE, out |-> <<{s[k] : k \in DOMAIN s}>>]
    [] c.op = "UpdateCommand" ->
         IF ConditionHolds(s, c)
           THEN [store |-> UpdateItem(s, c), ok |-> TRUE, out |-> <<UpdateItem(s, c)[c.Key]>>]
           ELSE [store |-> s, ok |-> FALSE, out |-> <<>>]
    [] c.op = "DeleteCommand" ->
         IF ConditionHolds(s, c)
           THEN [store |-> DeleteItem(s, c), ok |-> TRUE, out |-> <<>>]
           ELSE [store |-> s, ok |-> FALSE, out |-> <<>>]

\* --------------------------------------------------------- TicketService
Restrict(f, S) == [a \in DOMAIN f \cap S |-> f[a]]

Merge(f, g) == [a \in DOMAIN f \cup DOMAIN g |-> IF a \in DOMAIN g THEN g[a] ELSE f[a]]

\* createTicket that leaves type out of the item it stores.
createTicketDropsType(dto, uuid, t1, t2) ==
  [api |-> "createTicket", input |-> dto, op |-> "PutCommand",
   Item |-> Merge(Restrict(dto, MutableFields \ {"type"}),
                  [id |-> uuid, createdAt |-> t1, updatedAt |-> t2])]

createTicket(dto, uuid, t1, t2) ==
  [api |-> "createTicket", input |-> dto, op |-> "PutCommand",
   Item |-> Merge(Restrict(dto, MutableFields),
                  [id |-> uuid, createdAt |-> t1, updatedAt |-> t2])]

getAllTickets == [api |-> "getAllTickets", op |-> "ScanCommand"]

getTicketById(id) == [api |-> "getTicketById", op |-> "GetCommand", Key |-> id]

\* updateTicket without its ConditionExpression.
updateTicketUnconditional(id, dto, t) ==
  LET always == {"title", "description", "status", "reporterId", "priority", "type"}
      names == IF "assignedToId" \in DOMAIN dto THEN always \cup {"assignedToId"} ELSE always
  IN [api |-> "updateTicket", input |-> dto, at |-> t, op |-> "UpdateCommand", Key |-> id,
      set |-> Merge(Restrict(dto, names), [updatedAt |-> t]),
      ConditionExpression |-> FALSE]

\* updateTicket that also stamps createdAt.
updateTicketStampsCreatedAt(id, dto, t) ==
  LET always == {"title", "description", "status", "reporterId", "priority", "type"}
      names == IF "assignedToId" \in DOMAIN dto THEN always \cup {"assignedToId"} ELSE always
  IN [api |-> "updateTicket", input |-> dto, at |-> t, op |-> "UpdateCommand", Key |-> id,
      set |-> Merge(Restrict(dto, names), [updatedAt |-> t, createdAt |-> t]),
      ConditionExpression |-> TRUE]

\* updateTicket that stamps the item with the epoch instead of the time read.
updateTicketStampsEpoch(id, dto, t) ==
  LET always == {"title", "description", "status", "reporterId", "priority", "type"}
      names == IF "assignedToId" \in DOMAIN dto THEN always \cup {"assignedToId"} ELSE always
  IN [api |-> "updateTicket", input |-> dto, at |-> t, op |-> "UpdateCommand", Key |-> id,
      set |-> Merge(Restrict(dto, names), [updatedAt |-> 0]),
      ConditionExpression |-> TRUE]

updateTicket(id, dto, t) ==
  LET always == {"title", "description", "status", "reporterId", "priority", "type"}
      names == IF "assignedToId" \in DOMAIN dto THEN always \cup {"assignedToId"} ELSE always
  IN [api |-> "updateTicket", input |-> dto, at |-> t, op |-> "UpdateCommand", Key |-> id,
      set |-> Merge(Restrict(dto, names), [updatedAt |-> t]),
      ConditionExpression |-> TRUE]

\* patchTicket without its ConditionExpression.
patchTicketUnconditional(id, dto, t) ==
  [api |-> "patchTicket", input |-> dto, at |-> t, op |-> "UpdateCommand", Key |-> id,
   set |-> Merge(Restrict(dto, MutableFields), [updatedAt |-> t]),
   ConditionExpression |-> FALSE]

\* patchTicket without the branch for assignedToId.
patchTicketSkipsAssignee(id, dto, t) ==
  [api |-> "patchTicket", input |-> dto, at |-> t, op |-> "UpdateCommand", Key |-> id,
   set |-> Merge(Restrict(dto, MutableFields \ {"assignedToId"}), [updatedAt |-> t]),
   ConditionExpression |-> TRUE]

patchTicket(id, dto, t) ==
  [api |-> "patchTicket", input |-> dto, at |-> t, op |-> "UpdateCommand", Key |-> id,
   set |-> Merge(Restrict(dto, MutableFields), [updatedAt |-> t]),
   ConditionExpression |-> TRUE]

\* deleteTicket without its ConditionExpression.
deleteTicketUnconditional(id) ==
  [api |-> "deleteTicket", op |-> "DeleteCommand", Key |-> id,
   ConditionExpression |-> FALSE]

deleteTicket(id) ==
  [api |-> "deleteTicket", op |-> "DeleteCommand", Key |-> id,
   ConditionExpression |-> TRUE]

\* ------------------------------------------------------------- handlers
Throw(e) == [kind |-> "throw", error |-> e]

Return(statusCode, body) == [kind |-> "return", response |-> [statusCode |-> statusCode, body |-> body]]

Await(c) == [kind |-> "await", command |-> c]

\* A map over the issues that keeps the first one only.
ZodMessagesFirstOnly(issues) ==
  [i \in 1..(IF issues = <<>> THEN 0 ELSE 1) |-> <<issues[i].path, issues[i].code>>]

ZodMessages(issues) == [i \in 1..Len(issues) |-> <<issues[i].path, issues[i].code>>]

ValidationFailed(issues) ==
  Throw(BadRequestError(ErrorCodes.BAD_REQUEST, <<"Validation failed">>, ZodMessages(issues)))

InvalidTicketId(issues) ==
  Throw(BadRequestError(ErrorCodes.BAD_REQUEST, <<"Invalid ticket ID">>, ZodMessages(issues)))

BodyNotFound ==
  Throw(BadRequestError(ErrorCodes.BAD_REQUEST, <<"Validation failed">>, << <<"Body not found">> >>))

\* handleCreateTicket going on with the parsed data whatever the parse found.
handleCreateTicketIgnoresZodError(event, uuid, t1, t2) ==
  IF event.body.kind = "null" THEN BodyNotFound
  ELSE IF event.body.kind # "json" THEN Throw(SyntaxError)
  ELSE Await(createTicket(SchemaParse(CreateTicketRequest, event.body.obj).data, uuid, t1, t2))

handleCreateTicket(event, uuid, t1, t2) ==
  IF event.body.kind = "null" THEN BodyNotFound
  ELSE IF event.body.kind # "json" THEN Throw(SyntaxError)
  ELSE LET parsed == SchemaParse(CreateTicketRequest, event.body.obj)
       IN IF ~parsed.success THEN ValidationFailed(parsed.issues)
          ELSE Await(createTicket(parsed.data, uuid, t1, t2))

handleGetAllTickets == Await(getAllTickets)

handleGetTicketById(id) ==
  LET params == TicketIdParam(id)
  IN IF ~params.success THEN InvalidTicketId(params.issues)
     ELSE Await(getTicketById(params.data.id))

\* handleUpdateTicket without the parse of the id parameter.
handleUpdateTicketSkipsIdParam(event, id, t) ==
  IF event.body.kind = "null" THEN BodyNotFound
  ELSE IF event.body.kind # "json" THEN Throw(SyntaxError)
  ELSE LET parsed == SchemaParse(UpdateTicketRequest, event.body.obj)
       IN IF ~parsed.success THEN ValidationFailed(parsed.issues)
          ELSE Await(updateTicket(id, parsed.data, t))

handleUpdateTicket(event, id, t) ==
  IF event.body.kind = "null" THEN BodyNotFound
  ELSE IF event.body.kind # "json" THEN Throw(SyntaxError)
  ELSE LET parsed == SchemaParse(UpdateTicketRequest, event.body.obj)
           params == TicketIdParam(id)
       IN IF ~parsed.success THEN ValidationFailed(parsed.issues)
          ELSE IF ~params.success THEN ValidationFailed(params.issues)
          ELSE Await(updateTicket(id, parsed.data, t))

\* handlePatchTicket handing the decoded body to the service unparsed.
handlePatchTicketSkipsSchema(event, id, t) ==
  IF event.body.kind = "null" THEN BodyNotFound
  ELSE IF event.body.kind # "json" THEN Throw(SyntaxError)
  ELSE LET params == TicketIdParam(id)
       IN IF ~params.success THEN ValidationFailed(params.issues)
          ELSE Await(patchTicket(id, event.body.obj, t))

handlePatchTicket(event, id, t) ==
  IF event.body.kind = "null" THEN BodyNotFound
  ELSE IF event.body.kind # "json" THEN Throw(SyntaxError)
  ELSE LET parsed == SchemaParse(PatchTicketRequest, event.body.obj)
           params == TicketIdParam(id)
       IN IF ~parsed.success THEN ValidationFailed(parsed.issues)
          ELSE IF ~params.success THEN ValidationFailed(params.issues)
          ELSE Await(patchTicket(id, parsed.data, t))

handleDeleteTicket(id) ==
  LET params == TicketIdParam(id)
  IN IF ~params.success THEN InvalidTicketId(params.issues)
     ELSE Await(deleteTicket(params.data.id))

\* ------------------------------------------------------------- routing
TicketsPath == <<"v1", "tickets">>

\* path.startsWith("/v1/tickets/")
StartsWithTickets(path) == Len(path) > Len(TicketsPath) /\ SubSeq(path, 1, Len(TicketsPath)) = TicketsPath

isCreateTicketRoute(method, path) == method = "POST" /\ path = TicketsPath

isGetAllTicketsRoute(method, path) == method = "GET" /\ path = TicketsPath

isGetTicketByIdRoute(method, path) == method = "GET" /\ StartsWithTickets(path)

isUpdateTicketRoute(method, path) == method = "PUT" /\ StartsWithTickets(path)

isDeleteTicketRoute(method, path) == method = "DELETE" /\ StartsWithTickets(path)

isPatchTicketRoute(method, path) == method = "PATCH" /\ StartsWithTickets(path)

\* The missing id answered as an unknown path.
TicketIdRequiredAsNotFound ==
  Throw(NotFoundError(ErrorCodes.PATH_NOT_FOUND, <<"Path not found">>))

TicketIdRequired ==
  Throw(BadRequestError(ErrorCodes.BAD_REQUEST, <<"Ticket ID is required">>,
                        << <<"Missing ticket ID parameter">> >>))

\* Route that lists the tickets when no route matches.
RouteFallsBackToList(event, uuid, t1, t2) ==
  LET method == event.httpMethod
      path == event.path
      id == event.pathParameters
  IN IF isCreateTicketRoute(method, path) THEN handleCreateTicket(event, uuid, t1, t2)
     ELSE IF isGetAllTicketsRoute(method, path) THEN handleGetAllTickets
     ELSE IF isGetTicketByIdRoute(method, path)
       THEN IF id = NoId THEN TicketIdRequired ELSE handleGetTicketById(id)
     ELSE IF isUpdateTicketRoute(method, path)
       THEN IF id = NoId THEN TicketIdRequired ELSE handleUpdateTicket(event, id, t1)
     ELSE IF isPatchTicketRoute(method, path)
       THEN IF id = NoId THEN TicketIdRequired ELSE handlePatchTicket(event, id, t1)
     ELSE IF isDeleteTicketRoute(method, path)
       THEN IF id = NoId THEN TicketIdRequired ELSE handleDeleteTicket(id)
     ELSE handleGetAllTickets

\* The try block of handler, up to the await of the store call.
Route(event, uuid, t1, t2) ==
  LET method == event.httpMethod
      path == event.path
      id == event.pathParameters
  IN IF isCreateTicketRoute(method, path) THEN handleCreateTicket(event, uuid, t1, t2)
     ELSE IF isGetAllTicketsRoute(method, path) THEN handleGetAllTickets
     ELSE IF isGetTicketByIdRoute(method, path)
       THEN IF id = NoId THEN TicketIdRequired ELSE handleGetTicketById(id)
     ELSE IF isUpdateTicketRoute(method, path)
       THEN IF id = NoId THEN TicketIdRequired ELSE handleUpdateTicket(event, id, t1)
     ELSE IF isPatchTicketRoute(method, path)
       THEN IF id = NoId THEN TicketIdRequired ELSE handlePatchTicket(event, id, t1)
     ELSE IF isDeleteTicketRoute(method, path)
       THEN IF id = NoId THEN TicketIdRequired ELSE handleDeleteTicket(id)
     ELSE Throw(NotFoundError(ErrorCodes.PATH_NOT_FOUND, <<"Path not found">>))

\* Resume whose GET-by-id handler does not test the fetched item.
ResumeIgnoresAbsent(c, res) ==
  LET notFound == Throw(NotFoundError(ErrorCodes.TICKET_NOT_FOUND,
                                      <<"Ticket with id", c.Key, "not found">>))
  IN CASE c.api = "createTicket" -> Return(201, [ticket |-> c.Item])
       [] c.api = "getAllTickets" -> Return(200, [tickets |-> res.out[1]])
       [] c.api = "getTicketById" ->
            IF res.out = <<>>
              THEN Return(200, [empty |-> TRUE])
              ELSE Return(200, [ticket |-> res.out[1]])
       [] c.api \in {"updateTicket", "patchTicket"} ->
            IF res.ok THEN Return(200, [ticket |-> res.out[1]]) ELSE notFound
       [] c.api = "deleteTicket" ->
            IF res.ok THEN Return(204, [empty |-> TRUE]) ELSE notFound

\* The part of the service method and of its handler after the await.
\* The continuation that answers a scan with an empty list.
ResumeDropsItems(c, res) ==
  LET notFound == Throw(NotFoundError(ErrorCodes.TICKET_NOT_FOUND,
                                      <<"Ticket with id", c.Key, "not found">>))
  IN CASE c.api = "createTicket" -> Return(201, [ticket |-> c.Item])
       [] c.api = "getAllTickets" -> Return(200, [tickets |-> {}])
       [] c.api = "getTicketById" ->
            IF res.out = <<>>
              THEN Throw(NotFoundError(ErrorCodes.TICKET_NOT_FOUND,
                                       <<"ticket with id", c.Key, "not found">>))
              ELSE Return(200, [ticket |-> res.out[1]])
       [] c.api \in {"updateTicket", "patchTicket"} ->
            IF res.ok THEN Return(200, [ticket |-> res.out[1]]) ELSE notFound
       [] c.api = "deleteTicket" ->
            IF res.ok THEN Return(204, [empty |-> TRUE]) ELSE notFound

Resume(c, res) ==
  LET notFound == Throw(NotFoundError(ErrorCodes.TICKET_NOT_FOUND,
                                      <<"Ticket with id", c.Key, "not found">>))
  IN CASE c.api = "createTicket" -> Return(201, [ticket |-> c.Item])
       [] c.api = "getAllTickets" -> Return(200, [tickets |-> res.out[1]])
       [] c.api = "getTicketById" ->
            IF res.out = <<>>
              THEN Throw(NotFoundError(ErrorCodes.TICKET_NOT_FOUND,
                                       <<"ticket with id", c.Key, "not found">>))
              ELSE Return(200, [ticket |-> res.out[1]])
       [] c.api \in {"updateTicket", "patchTicket"} ->
            IF res.ok THEN Return(200, [ticket |-> res.out[1]]) ELSE notFound
       [] c.api = "deleteTicket" ->
            IF res.ok THEN Return(204, [empty |-> TRUE]) ELSE notFound

\* A catch block that leaves the details of an HttpError out of the body.
CatchDropsDetails(o) ==
  IF o.kind # "throw" THEN o
  ELSE IF o.error.class = "HttpError"
    THEN Return(o.error.statusCode, [code |-> o.error.code, message |-> o.error.message])
    ELSE Return(500, [code |-> ErrorCodes.INTERNAL_SERVER_ERROR,
                      message |-> <<"Unexpected server error">>])

\* A catch block that reports the class of an unexpected error.
CatchLeaksError(o) ==
  IF o.kind # "throw" THEN o
  ELSE IF o.error.class = "HttpError"
    THEN Return(o.error.statusCode,
                IF o.error.details = <<>>
                  THEN [code |-> o.error.code, message |-> o.error.message]
                  ELSE [code |-> o.error.code, message |-> o.error.message,
                        details |-> o.error.details[1]])
    ELSE Return(500, [code |-> ErrorCodes.INTERNAL_SERVER_ERROR,
                      message |-> <<o.error.class>>])

\* A catch block that rethrows an unexpected error: the invocation fails
\* and the gateway answers 502 in its place.
CatchRethrowsUnexpected(o) ==
  IF o.kind # "throw" THEN o
  ELSE IF o.error.class = "HttpError"
    THEN Return(o.error.statusCode,
                IF o.error.details = <<>>
                  THEN [code |-> o.error.code, message |-> o.error.message]
                  ELSE [code |-> o.error.code, message |-> o.error.message,
                        details |-> o.error.details[1]])
    ELSE Return(502, [code |-> ErrorCodes.INTERNAL_SERVER_ERROR,
                      message |-> <<"Internal server error">>])

\* The catch block of handler.
Catch(o) ==
  IF o.kind # "throw" THEN o
  ELSE IF o.error.class = "HttpError"
    THEN Return(o.error.statusCode,
                IF o.error.details = <<>>
                  THEN [code |-> o.error.code, message |-> o.error.message]
                  ELSE [code |-> o.error.code, message |-> o.error.message,
                        details |-> o.error.details[1]])
    ELSE Return(500, [code |-> ErrorCodes.INTERNAL_SERVER_ERROR,
                      message |-> <<"Unexpected server error">>])

\* --------------------------------------------------------------- inputs
JsonBody(obj) == [kind |-> "json", obj |-> obj]

NullBody == [kind |-> "null"]

MalformedBody == [kind |-> "text"]

CreateMin == [title |-> "t1", description |-> "d1", reporterId |-> "u1"]

CreateFull ==
  [title |-> "t1", description |-> "d1", reporterId |-> "u1", status |-> "OPEN",
   assignedToId |-> "u2", priority |-> "HIGH", type |-> "QUESTION"]

UpdateAll ==
  [title |-> "t2", description |-> "d2", status |-> "CLOSED", reporterId |-> "u3",
   priority |-> "LOW", type |-> "SERVICE_REQUEST"]

UpdateAssigned == Merge(UpdateAll, [assignedToId |-> "u3"])

PatchTitle == [title |-> "t3"]

PatchAssign == [assignedToId |-> "u1", status |-> "RESOLVED"]

EmptyObject == <<>>

IdPath == TicketsPath \o <<"{id}">>

PathIds == Ids \cup {BadId}

Event(method, path, id, body) ==
  [httpMethod |-> method, path |-> path, pathParameters |-> id, body |-> body]

CreateEvents ==
  {Event("POST", TicketsPath, NoId, b) :
     b \in {JsonBody(CreateMin), JsonBody(CreateFull),
            JsonBody(Merge(CreateMin, [title |-> ""])),
            JsonBody(Merge(CreateFull, [createdAt |-> "9"])),
            JsonBody(Merge(CreateMin, [type |-> "BUG"]))}}

ReadEvents ==
  {Event("GET", TicketsPath, NoId, NullBody)}
  \cup {Event("GET", IdPath, i, NullBody) : i \in PathIds \cup {NoId}}

DeleteEvents ==
  {Event("DELETE", IdPath, i, NullBody) : i \in Ids \cup {NoId}}

UpdateEvents ==
  {Event("PUT", IdPath, i, JsonBody(b)) : i \in Ids, b \in {UpdateAll, UpdateAssigned}}
  \cup {Event("PUT", IdPath, 1, b) :
          b \in {JsonBody(Merge(UpdateAll, [status |-> "BOGUS"])),
                 JsonBody(Merge(UpdateAll, [createdAt |-> "9"])),
                 JsonBody(Merge(UpdateAll, [status |-> "BOGUS", createdAt |-> "9"])),
                 MalformedBody, NullBody}}
  \cup {Event("PUT", IdPath, BadId, JsonBody(b)) :
          b \in {UpdateAll, Merge(UpdateAll, [status |-> "BOGUS"])}}
  \cup {Event("PUT", IdPath, NoId, b) : b \in {JsonBody(UpdateAll), MalformedBody}}

PatchEvents ==
  {Event("PATCH", IdPath, i, JsonBody(b)) : i \in Ids, b \in {PatchTitle, PatchAssign}}
  \cup {Event("PATCH", IdPath, 1, JsonBody(EmptyObject)),
        Event("PATCH", IdPath, 1, JsonBody([priority |-> "URGENT"])),
        Event("PATCH", IdPath, BadId, JsonBody(PatchTitle)),
        Event("PATCH", IdPath, NoId, JsonBody(PatchTitle))}

OtherEvents ==
  {Event("OPTIONS", TicketsPath, NoId, NullBody), Event("GET", <<"tickets">>, NoId, NullBody),
   Event("OPTIONS", IdPath, 1, NullBody), Event("POST", IdPath, 1, JsonBody(CreateMin)),
   Event("DELETE", TicketsPath, NoId, NullBody)}

\* The requests of the contention scenarios: valid requests of every route.
CoreEvents ==
  {Event("POST", TicketsPath, NoId, JsonBody(CreateMin)),
   Event("GET", TicketsPath, NoId, NullBody)}
  \cup {Event("GET", IdPath, i, NullBody) : i \in Ids}
  \cup {Event("DELETE", IdPath, i, NullBody) : i \in Ids}
  \cup {Event("PUT", IdPath, i, JsonBody(UpdateAll)) : i \in Ids}
  \cup {Event("PATCH", IdPath, i, JsonBody(PatchTitle)) : i \in Ids}

Events == CreateEvents \cup ReadEvents \cup DeleteEvents \cup UpdateEvents \cup PatchEvents \cup OtherEvents

\* ---------------------------------------------------------------- state
VARIABLES
  store,    \* the table dyn-tickets: id -> item
  pc,       \* per invocation: "idle", or "awaiting" its store call
  cmd,      \* per invocation: the command handed to docClient.send
  rivals,   \* per invocation: the writes of the same id that were applied
            \* while this invocation's mutation was in flight
  event,    \* the event handler was called with in the step just taken
  resp,     \* the response handler returned in the step just taken
  served,   \* the service method behind resp, "none" when none
  winners,  \* rivals of the invocation that returned resp
  now,      \* the last value read from the clock by new Date()
  nextId,   \* the next uuid that uuidv4() hands out
  requests, \* number of requests received so far
  created,  \* ids under which a PutCommand has been applied
  deleted   \* ids whose DeleteCommand has succeeded

vars ==
  <<store, pc, cmd, rivals, event, resp, served, winners, now, nextId, requests, created, deleted>>

NoEvent == [httpMethod |-> "none"]

NoResp == [statusCode |-> 0, body |-> [none |-> TRUE]]

\* A generator that hands out the previous uuid again.
uuidRepeats == IF nextId > 1 THEN nextId - 1 ELSE nextId

uuidv4 == nextId

\* The clock does not run backwards: a reading is the last one or later.
Later(t) == {t, t + 1} \cap Times

Init ==
  /\ store = <<>>
  /\ pc = [r \in Slots |-> "idle"]
  /\ cmd = [r \in Slots |-> NoCmd]
  /\ rivals = [r \in Slots |-> {}]
  /\ event = NoEvent
  /\ resp = NoResp
  /\ served = NoCmd.api
  /\ winners = {}
  /\ now = 0
  /\ nextId = 1
  /\ requests = 0
  /\ created = {}
  /\ deleted = {}

Mutations == {"updateTicket", "patchTicket", "deleteTicket"}

\* The id whose item command c writes: the Item of a PutCommand carries it,
\* the other commands name it as their Key.
WrittenId(c) == IF c.op = "PutCommand" THEN c.Item.id ELSE c.Key

\* The invocations other than r that are awaiting a mutation of the id that
\* command c writes.
InFlightOn(c, r) ==
  IF c.api \notin Mutations \cup {"createTicket"} THEN {}
  ELSE {q \in Slots \ {r} :
          pc[q] = "awaiting" /\ cmd[q].api \in Mutations /\ cmd[q].Key = WrittenId(c)}

\* Which clock readings handler makes for a command: createTicket reads the
\* clock twice, updateTicket and patchTicket once, the others never.
ClockReads(o) ==
  IF o.kind # "await" THEN 0
  ELSE CASE o.command.api = "createTicket" -> 2
         [] o.command.api \in {"updateTicket", "patchTicket"} -> 1
         [] OTHER -> 0

\* A client names an id it was given, or one that was never handed out: the
\* next uuid stands for every id that no create has produced.
Nameable(e) == e.pathParameters <= nextId

\* handler(event) up to its await of the store call, or to its return when
\* it makes no store call. Idle invocations are interchangeable: the lowest
\* one takes the request.
Receive(r, e) ==
  /\ pc[r] = "idle"
  /\ \A q \in Slots : q < r => pc[q] # "idle"
  /\ requests < MaxRequests
  /\ Nameable(e)
  /\ requests' = requests + 1
  /\ event' = e
  /\ \E t1 \in Later(now) : \E t2 \in Later(t1) :
       LET o == Catch(Route(e, uuidv4, t1, t2))
           reads == ClockReads(o)
       IN /\ reads = 0 => t1 = now
          /\ reads < 2 => t2 = t1
          /\ reads = 2 => nextId <= MaxIds
          /\ IF o.kind = "await"
               THEN /\ pc' = [pc EXCEPT ![r] = "awaiting"]
                    /\ cmd' = [cmd EXCEPT ![r] = o.command]
                    /\ resp' = NoResp
               ELSE /\ resp' = o.response
                    /\ UNCHANGED <<pc, cmd>>
          /\ nextId' = IF reads = 2 THEN nextId + 1 ELSE nextId
          /\ now' = t2
  /\ served' = NoCmd.api
  /\ winners' = {}
  /\ UNCHANGED <<store, rivals, created, deleted>>

\* The table evaluates the command atomically, the invocation resumes and
\* handler returns.
Complete(r) ==
  /\ pc[r] = "awaiting"
  /\ LET c == cmd[r]
         res == Execute(store, c)
         o == Catch(Resume(c, res))
     IN /\ store' = res.store
        /\ resp' = o.response
        /\ created' = IF c.op = "PutCommand" THEN created \cup {c.Item.id} ELSE created
        /\ deleted' = IF c.op = "DeleteCommand" /\ res.ok THEN deleted \cup {c.Key} ELSE deleted
        /\ rivals' = [q \in Slots |->
                        IF q = r THEN {}
                        ELSE IF res.ok /\ q \in InFlightOn(c, r) THEN rivals[q] \cup {c.api}
                        ELSE rivals[q]]
  /\ pc' = [pc EXCEPT ![r] = "idle"]
  /\ cmd' = [cmd EXCEPT ![r] = NoCmd]
  /\ event' = NoEvent
  /\ served' = cmd[r].api
  /\ winners' = rivals[r]
  /\ UNCHANGED <<now, nextId, requests>>

\* A failed store call answered as if the command had been applied.
StoreFaultMasked(r) ==
  /\ pc[r] = "awaiting"
  /\ resp' = Catch(Resume(cmd[r], Execute(store, cmd[r]))).response
  /\ pc' = [pc EXCEPT ![r] = "idle"]
  /\ cmd' = [cmd EXCEPT ![r] = NoCmd]
  /\ rivals' = [rivals EXCEPT ![r] = {}]
  /\ event' = NoEvent
  /\ served' = cmd[r].api
  /\ winners' = rivals[r]
  /\ UNCHANGED <<store, now, nextId, requests, created, deleted>>

\* The store call fails for a reason other than its condition: nothing is
\* written and the error reaches the catch block of handler.
StoreFault(r) ==
  /\ pc[r] = "awaiting"
  /\ resp' = Catch(Throw(StoreError)).response
  /\ pc' = [pc EXCEPT ![r] = "idle"]
  /\ cmd' = [cmd EXCEPT ![r] = NoCmd]
  /\ rivals' = [rivals EXCEPT ![r] = {}]
  /\ event' = NoEvent
  /\ served' = cmd[r].api
  /\ winners' = rivals[r]
  /\ UNCHANGED <<store, now, nextId, requests, created, deleted>>

\* Concurrent invocations serving the valid requests of every route.
Next ==
  \/ \E r \in Slots, e \in CoreEvents : Receive(r, e)
  \/ \E r \in Slots : Complete(r)
  \/ \E r \in Slots : StoreFault(r)

Spec == Init /\ [][Next]_vars

\* One invocation at a time serving every request, valid or not.
NextSeq ==
  \/ \E e \in Events : Receive(1, e)
  \/ Complete(1)
  \/ StoreFault(1)

SpecSeq == Init /\ [][NextSeq]_vars

\* ------------------------------------------------------------ properties
TicketNotFound(id) ==
  [statusCode |-> 404,
   body |-> [code |-> "ticket_not_found", message |-> <<"Ticket with id", id, "not found">>]]

Succeeded == resp.statusCode \in {200, 201, 204}

NotFound == resp.statusCode = 404 /\ resp.body.code = "ticket_not_found"

\* C1: updateTicket, patchTicket and deleteTicket on an id that is not in
\* the store leave the store exactly as it was, and the request is answered
\* 404 ticket_not_found whenever the table evaluated its command.
C1_MissingIdNotFound ==
  [][\A r \in Slots :
       (/\ pc[r] = "awaiting"
        /\ cmd[r].api \in Mutations
        /\ cmd[r].Key \notin DOMAIN store
        /\ pc'[r] = "idle")
       => /\ store' = store
          /\ (Complete(r) => resp' = TicketNotFound(cmd[r].Key))]_vars

C1_Witness ==
  /\ served = "deleteTicket" /\ NotFound
  /\ resp.body.message[2] \notin created
  /\ DOMAIN store # {}

\* C2: an id whose delete has succeeded is never in the store again, in any
\* interleaving of the update, patch and delete requests on that id.
C2_DeletedNeverResurrected == \A i \in deleted : i \notin DOMAIN store

C2_Witness ==
  /\ served \in {"updateTicket", "patchTicket"} /\ NotFound
  /\ "deleteTicket" \in winners
  /\ resp.body.message[2] \in deleted

\* C3 as stated: of the update, patch and delete requests in flight together
\* on the same existing id exactly one succeeds, so a request that the table
\* evaluates after a rival has succeeded is answered 404 ticket_not_found.
C3_ExactlyOneWinner ==
  (served \in Mutations /\ winners \cap Mutations # {} /\ resp.statusCode # 500) => NotFound

\* C3 as amended: a mutation succeeds exactly when its id is in the store at
\* the moment the table applies it, and is answered 404 ticket_not_found
\* otherwise; a successful delete removes the id.
C3_WinsIffPresent ==
  [][\A r \in Slots :
       (Complete(r) /\ cmd[r].api \in Mutations)
       => IF cmd[r].Key \in DOMAIN store
            THEN /\ resp'.statusCode \in {200, 204}
                 /\ cmd[r].api = "deleteTicket" => cmd[r].Key \notin DOMAIN store'
            ELSE resp' = TicketNotFound(cmd[r].Key)]_vars

C3_Witness ==
  /\ served = "deleteTicket" /\ Succeeded
  /\ winners \cap {"updateTicket", "patchTicket"} # {}

\* C4: an id is in the store exactly when a create has stored it and no
\* delete of it has succeeded.
C4_StoredIffCreatedNotDeleted == DOMAIN store = created \ deleted

C4_Witness == deleted # {} /\ DOMAIN store # {} /\ Cardinality(created) >= 2

\* C5: a create stores its record under an id that was never stored before,
\* overwrites nothing, and no other create in flight holds the same id.
C5_CreateUsesFreshId ==
  [][\A r \in Slots :
       (Complete(r) /\ cmd[r].op = "PutCommand")
       => LET i == cmd[r].Item.id
          IN /\ i \notin created
             /\ i \notin DOMAIN store
             /\ \A k \in DOMAIN store : store'[k] = store[k]
             /\ \A q \in Slots \ {r} :
                  (pc[q] = "awaiting" /\ cmd[q].op = "PutCommand") => cmd[q].Item.id # i]_vars

C5_Witness ==
  /\ Cardinality(DOMAIN store) >= 2
  /\ \A k \in DOMAIN store : store[k].id = k

\* ---- requests seen by the validation boundary
BodySchema(e) ==
  IF isCreateTicketRoute(e.httpMethod, e.path) THEN CreateTicketRequest
  ELSE IF isUpdateTicketRoute(e.httpMethod, e.path) THEN UpdateTicketRequest
  ELSE PatchTicketRequest

HasBodySchema(e) ==
  \/ isCreateTicketRoute(e.httpMethod, e.path)
  \/ isUpdateTicketRoute(e.httpMethod, e.path)
  \/ isPatchTicketRoute(e.httpMethod, e.path)

HasIdParam(e) == e.path # TicketsPath /\ StartsWithTickets(e.path)

Routed(e) ==
  /\ e.httpMethod \in {"POST", "GET", "PUT", "PATCH", "DELETE"}
  /\ IF e.httpMethod = "POST" THEN e.path = TicketsPath
     ELSE e.path = TicketsPath => e.httpMethod = "GET"
  /\ e.path = TicketsPath \/ StartsWithTickets(e.path)

BodyInvalid(e) ==
  HasBodySchema(e) /\ (e.body.kind # "json" \/ ~SchemaParse(BodySchema(e), e.body.obj).success)

IdInvalid(e) == HasIdParam(e) /\ e.pathParameters \notin Ids

ExpectedApi(e) ==
  CASE e.httpMethod = "POST" -> "createTicket"
    [] e.httpMethod = "PUT" -> "updateTicket"
    [] e.httpMethod = "PATCH" -> "patchTicket"
    [] e.httpMethod = "DELETE" -> "deleteTicket"
    [] OTHER -> IF HasIdParam(e) THEN "getTicketById" ELSE "getAllTickets"

\* C6: a request with an invalid body or id parameter reaches neither the
\* service nor the store; a valid one makes exactly one service call, with
\* the validated body and the id of the request.
C6_ValidationFirst ==
  [][\A r \in Slots :
       /\ LET e == event'
          IN (Routed(e) /\ Receive(r, e))
            => IF BodyInvalid(e) \/ IdInvalid(e)
                 THEN /\ pc'[r] = "idle" /\ cmd'[r] = NoCmd /\ served' = "none"
                      /\ store' = store
                      /\ resp'.statusCode \in {400, 500}
                 ELSE /\ pc'[r] = "awaiting"
                      /\ cmd'[r].api = ExpectedApi(e)
                      /\ HasBodySchema(e) =>
                           cmd'[r].input = SchemaParse(BodySchema(e), e.body.obj).data
                      /\ (HasIdParam(e) /\ e.httpMethod # "POST") =>
                           cmd'[r].Key = e.pathParameters
       /\ (pc[r] = "awaiting" /\ pc'[r] # "awaiting") => cmd'[r] = NoCmd /\ pc'[r] = "idle"]_vars

C6_Witness ==
  /\ BodyInvalid(event)
  /\ resp.statusCode = 400 /\ served = "none"
  /\ resp.body.message = <<"Validation failed">>
  /\ DOMAIN store # {}

\* C7: a PATCH whose body is an object without fields is answered 400 and
\* issues no store command; the store keeps every record as it was.
C7_EmptyPatchRejected ==
  [][\A r \in Slots :
       LET e == event'
       IN (/\ e.httpMethod = "PATCH"
           /\ isPatchTicketRoute(e.httpMethod, e.path)
           /\ e.pathParameters # NoId
           /\ e.body.kind = "json"
           /\ DOMAIN e.body.obj = {}
           /\ Receive(r, e))
          => /\ resp'.statusCode = 400
             /\ pc'[r] = "idle" /\ cmd'[r] = NoCmd
             /\ store' = store]_vars

C7_Witness ==
  /\ event = Event("PATCH", IdPath, 1, JsonBody(EmptyObject))
  /\ resp.statusCode = 400 /\ served = "none"
  /\ "details" \in DOMAIN resp.body
  /\ resp.body.details = << <<"", "custom">> >>
  /\ 1 \in DOMAIN store

\* C8: a successful updateTicket leaves every mutable field of the record
\* as the input gives it, an omitted assignedToId leaving no assignee, and
\* stamps updatedAt.
C8_UpdateReplacesAll ==
  [][\A r \in Slots :
       (Complete(r) /\ cmd[r].api = "updateTicket" /\ cmd[r].Key \in DOMAIN store)
       => LET new == store'[cmd[r].Key]
              in == cmd[r].input
          IN /\ \A f \in MutableFields :
                  IF f \in DOMAIN in THEN new[f] = in[f]
                  ELSE f \notin DOMAIN new \/ new[f] = Null
             /\ new.updatedAt = cmd[r].at]_vars

\* C9: a successful patchTicket writes the fields of its input and
\* updatedAt, and leaves every other attribute of the record, and every
\* other record, as it was.
C9_PatchFrame ==
  [][\A r \in Slots :
       (Complete(r) /\ cmd[r].api = "patchTicket" /\ cmd[r].Key \in DOMAIN store)
       => LET k == cmd[r].Key
              in == cmd[r].input
          IN /\ DOMAIN store' = DOMAIN store
             /\ DOMAIN store'[k] = DOMAIN store[k]
             /\ \A a \in DOMAIN store[k] :
                  store'[k][a] = IF a \in DOMAIN in THEN in[a]
                                 ELSE IF a = "updatedAt" THEN cmd[r].at
                                 ELSE store[k][a]
             /\ \A j \in DOMAIN store \ {k} : store'[j] = store[j]]_vars

C9_Witness ==
  /\ served = "patchTicket" /\ resp.statusCode = 200
  /\ resp.body.ticket.updatedAt # resp.body.ticket.createdAt
  /\ resp.body.ticket.assignedToId = PatchAssign.assignedToId

\* C10: no step changes the id or the createdAt of a record that stays in
\* the store.
C10_IdAndCreatedAtImmutable ==
  [][\A k \in DOMAIN store \cap DOMAIN store' :
       /\ store[k].id = k
       /\ store'[k].id = k
       /\ store'[k].createdAt = store[k].createdAt]_vars

C10_Witness ==
  /\ served \in {"updateTicket", "patchTicket"} /\ resp.statusCode = 200
  /\ resp.body.ticket.updatedAt > resp.body.ticket.createdAt
  /\ resp.body.ticket.id \in DOMAIN store

\* C11 as stated: the record that createTicket stores and returns has
\* createdAt equal to updatedAt, whatever the clock does meanwhile.
C11_CreatedAtEqualsUpdatedAt ==
  [][\A r \in Slots :
       (Complete(r) /\ cmd[r].api = "createTicket")
       => /\ resp'.body.ticket.createdAt = resp'.body.ticket.updatedAt
          /\ store'[cmd[r].Item.id].createdAt = store'[cmd[r].Item.id].updatedAt]_vars

C13_RoundTrip ==
  [][/\ \A r \in Slots :
          /\ (Complete(r) /\ cmd[r].api = "createTicket")
             => /\ resp'.statusCode = 201
                /\ resp'.body.ticket = store'[cmd[r].Item.id]
          /\ (Complete(r) /\ cmd[r].api = "getTicketById" /\ cmd[r].Key \in DOMAIN store)
             => resp' = [statusCode |-> 200, body |-> [ticket |-> store[cmd[r].Key]]]
     /\ \A k \in DOMAIN store :
          (k \notin DOMAIN store' \/ store'[k] # store[k])
          => \E r \in Slots : Complete(r) /\ cmd[r].api \in Mutations /\ cmd[r].Key = k]_vars

C13_Witness ==
  /\ served = "getTicketById" /\ resp.statusCode = 200
  /\ resp.body.ticket.id \in DOMAIN store
  /\ resp.body.ticket = store[resp.body.ticket.id]
  /\ resp.body.ticket.title = CreateMin.title
  /\ resp.body.ticket.status = "NEW"
  /\ resp.body.ticket.assignedToId = Null

\* C14: the GetCommand of getTicketById on an id that is not in the store
\* succeeds with no item, and the GET-by-id handler answers 404
\* ticket_not_found; on an id in the store it answers 200 with the record.
\* The store is as before in both cases.
C14_GetByIdAbsent ==
  [][\A r \in Slots :
       (Complete(r) /\ cmd[r].api = "getTicketById")
       => LET k == cmd[r].Key
              res == Execute(store, cmd[r])
          IN /\ store' = store
             /\ res.ok
             /\ IF k \in DOMAIN store
                  THEN /\ res.out = <<store[k]>>
                       /\ resp' = [statusCode |-> 200, body |-> [ticket |-> store[k]]]
                  ELSE /\ res.out = <<>>
                       /\ resp'.statusCode = 404
                       /\ resp'.body.code = "ticket_not_found"
                       /\ resp'.body.message[2] = k]_vars

C14_Witness ==
  /\ served = "getTicketById" /\ NotFound
  /\ resp.body.message[2] \notin DOMAIN store
  /\ DOMAIN store # {}

\* ---- the route table of handler, in the order handler tests it
RouteTable ==
  <<"createTicket", "getAllTickets", "getTicketById", "updateTicket", "patchTicket", "deleteTicket">>

RouteMatches(i, e) ==
  CASE i = 1 -> isCreateTicketRoute(e.httpMethod, e.path)
    [] i = 2 -> isGetAllTicketsRoute(e.httpMethod, e.path)
    [] i = 3 -> isGetTicketByIdRoute(e.httpMethod, e.path)
    [] i = 4 -> isUpdateTicketRoute(e.httpMethod, e.path)
    [] i = 5 -> isPatchTicketRoute(e.httpMethod, e.path)
    [] i = 6 -> isDeleteTicketRoute(e.httpMethod, e.path)

MatchingRoutes(e) == {i \in DOMAIN RouteTable : RouteMatches(i, e)}

FirstMatch(e) == RouteTable[CHOOSE i \in MatchingRoutes(e) : \A j \in MatchingRoutes(e) : i <= j]

PathNotFound ==
  [statusCode |-> 404, body |-> [code |-> "path_not_found", message |-> <<"Path not found">>]]

C16_PreflightAnswered200 ==
  [][\A r \in Slots :
       LET e == event'
       IN (/\ e.httpMethod = "OPTIONS"
           /\ (e.path = TicketsPath \/ StartsWithTickets(e.path))
           /\ Receive(r, e))
          => /\ resp' = [statusCode |-> 200, body |-> [empty |-> TRUE]]
             /\ pc'[r] = "idle" /\ cmd'[r] = NoCmd
             /\ store' = store]_vars

\* The response that carries HttpError err one to one.
Carries(response, err) ==
  /\ response.statusCode = err.statusCode
  /\ response.body.code = err.code
  /\ response.body.message = err.message
  /\ DOMAIN response.body = IF err.details = <<>> THEN {"code", "message"}
                            ELSE {"code", "message", "details"}
  /\ err.details # <<>> => response.body.details = err.details[1]

RaisesHttpError(o) == o.kind = "throw" /\ o.error.class = "HttpError"

\* C17: when routing, a handler or a service method raises an HttpError, the
\* response has the status of the error and a body with its code, its
\* message, and its details exactly when the error has details.
C17_HttpErrorCarried ==
  [][\A r \in Slots :
       /\ LET e == event'
              o == Route(e, nextId, now, now)
          IN (e.httpMethod # "none" /\ Receive(r, e) /\ RaisesHttpError(o))
             => Carries(resp', o.error)
       /\ LET o == Resume(cmd[r], Execute(store, cmd[r]))
          IN (Complete(r) /\ RaisesHttpError(o)) => Carries(resp', o.error)]_vars

C17_Witness ==
  /\ event \in Events
  /\ event.pathParameters = NoId
  /\ resp.statusCode = 400
  /\ resp.body.message = <<"Ticket ID is required">>
  /\ resp.body.details = << <<"Missing ticket ID parameter">> >>

InternalServerError ==
  [statusCode |-> 500,
   body |-> [code |-> "internal_server_error", message |-> <<"Unexpected server error">>]]

\* C18: every request that ends in an error other than an HttpError, raised
\* before or by the store call, gets one and the same response: 500
\* internal_server_error with the fixed message, whatever the error was.
C18_UnexpectedIsGeneric500 ==
  [][/\ resp'.statusCode = 500 => resp' = InternalServerError
     /\ \A r \in Slots :
          /\ StoreFault(r) => resp' = InternalServerError
          /\ LET e == event'
                 o == Route(e, nextId, now, now)
             IN (/\ e.httpMethod # "none" /\ Receive(r, e)
                 /\ o.kind = "throw" /\ o.error.class # "HttpError")
                => resp' = InternalServerError]_vars

C18_Witness ==
  /\ served \in Mutations
  /\ resp = InternalServerError
  /\ DOMAIN store # {}

\* C19 as stated: a POST, PUT or PATCH whose body is present and is not JSON
\* is answered 400 with no store command.
C19_MalformedJsonIs400 ==
  [][\A r \in Slots :
       LET e == event'
       IN (/\ e.httpMethod \in {"POST", "PUT", "PATCH"}
           /\ MatchingRoutes(e) # {}
           /\ e.pathParameters # NoId \/ e.httpMethod = "POST"
           /\ e.body.kind = "text"
           /\ Receive(r, e))
          => /\ resp'.statusCode = 400
             /\ pc'[r] = "idle" /\ cmd'[r] = NoCmd
             /\ store' = store]_vars

\* ---- what the validator finds in a request
Violations(issues) == [i \in 1..Len(issues) |-> <<issues[i].path, issues[i].code>>]

BodyIssues(e) ==
  IF HasBodySchema(e) /\ e.body.kind = "json"
    THEN SchemaParse(BodySchema(e), e.body.obj).issues
    ELSE <<>>

IdIssues(e) ==
  IF HasIdParam(e) /\ e.pathParameters # NoId /\ (HasBodySchema(e) => e.body.kind = "json")
    THEN TicketIdParam(e.pathParameters).issues
    ELSE <<>>

BadRequest(message, details) ==
  [statusCode |-> 400,
   body |-> [code |-> "bad_request", message |-> message, details |-> details]]

C21_AllViolationsReported ==
  [][\A r \in Slots :
       LET e == event'
       IN (/\ e.httpMethod # "none"
           /\ Receive(r, e)
           /\ BodyIssues(e) \o IdIssues(e) # <<>>)
          => /\ resp'.statusCode = 400
             /\ resp'.body.details = Violations(BodyIssues(e) \o IdIssues(e))]_vars

EnumFields ==
  [status |-> TicketStatus, priority |-> TicketPriority, type |-> TicketType]

OutsideEnum(e) ==
  /\ HasBodySchema(e)
  /\ e.body.kind = "json"
  /\ \E f \in DOMAIN EnumFields \cap DOMAIN e.body.obj : e.body.obj[f] \notin EnumFields[f]

Stringify(value) == [kind |-> "json", obj |-> value]

\* The string ''.
EmptyString == [kind |-> "empty"]

CorsHeaders ==
  [h \in {"Access-Control-Allow-Origin", "Access-Control-Allow-Headers",
          "Access-Control-Allow-Methods"} |->
     CASE h = "Access-Control-Allow-Origin" -> "*"
       [] h = "Access-Control-Allow-Headers" -> "Content-Type,Authorization"
       [] h = "Access-Control-Allow-Methods" -> "GET,POST,PUT,DELETE,PATCH,OPTIONS"]

JsonHeaders == Merge([h \in {"Content-Type"} |-> "application/json"], CorsHeaders)

success(statusCode, body) ==
  [statusCode |-> statusCode, headers |-> JsonHeaders, body |-> Stringify(body)]

\* An optional argument: left out, or given with a value.
Undefined == [given |-> FALSE, value |-> <<>>]

Given(value) == [given |-> TRUE, value |-> value]

error(statusCode, code, message, details) ==
  LET errorResponse ==
        IF details.given
          THEN [code |-> code, message |-> message, details |-> details.value]
          ELSE [code |-> code, message |-> message]
  IN [statusCode |-> statusCode, headers |-> JsonHeaders, body |-> Stringify(errorResponse)]

\* noContent answering with the headers of a JSON response.
noContentAsJson == [statusCode |-> 204, headers |-> JsonHeaders, body |-> EmptyString]

noContent == [statusCode |-> 204, headers |-> CorsHeaders, body |-> EmptyString]

corsPreflight ==
  [statusCode |-> 200,
   headers |-> Merge(CorsHeaders, [h \in {"Access-Control-Max-Age"} |-> "86400"]),
   body |-> EmptyString]

\* ---- the calls of the builder
SuccessCodes == {200, 201}

ErrorStatusCodes == {400, 401, 404, 500}

SuccessBodies == {CreateMin, CreateFull, UpdateAll, UpdateAssigned, PatchTitle, PatchAssign}

ErrorCodeInputs == {"bad_request", "unauthorized", "not_found", "internal_server_error"}

ErrorMessages == {"Bad Request", "Resource not found", "Internal Server Error"}

DetailsInputs ==
  {Undefined, Given(<<>>),
   Given(<<[field |-> "title", message |-> "Title is required", code |-> "too_small"]>>)}

\* What a call of the builder leaves alone.
BuilderFrame ==
  UNCHANGED <<store, pc, cmd, rivals, event, winners, now, nextId, requests, created, deleted>>

BuildSuccess ==
  \E c \in SuccessCodes, b \in SuccessBodies :
    resp' = success(c, b) /\ served' = "success" /\ BuilderFrame

BuildError ==
  \E c \in ErrorStatusCodes, k \in ErrorCodeInputs, m \in ErrorMessages, d \in DetailsInputs :
    resp' = error(c, k, m, d) /\ served' = "error" /\ BuilderFrame

BuildNoContent == resp' = noContent /\ served' = "noContent" /\ BuilderFrame

BuildPreflight == resp' = corsPreflight /\ served' = "corsPreflight" /\ BuilderFrame

NextResponseUtils == BuildSuccess \/ BuildError \/ BuildNoContent \/ BuildPreflight

SpecResponseUtils == Init /\ [][NextResponseUtils]_vars

\* C24: every envelope of the response builder carries the headers
\* Access-Control-Allow-Origin, -Headers and -Methods; the 204 envelope has
\* an empty body and no Content-Type; the preflight envelope carries
\* Access-Control-Max-Age besides; a success or error envelope has
\* Content-Type application/json and the JSON text of its body.
C24_Envelopes ==
  resp.statusCode # NoResp.statusCode =>
    /\ DOMAIN CorsHeaders \subseteq DOMAIN resp.headers
    /\ resp.statusCode = 204
         => resp.body.kind = EmptyString.kind /\ "Content-Type" \notin DOMAIN resp.headers
    /\ served = "noContent" => resp.statusCode = 204
    /\ served = "corsPreflight" => "Access-Control-Max-Age" \in DOMAIN resp.headers
    /\ served \in {"success", "error"}
         => /\ "Content-Type" \in DOMAIN resp.headers
            /\ resp.headers["Content-Type"] = "application/json"
            /\ resp.body.kind = "json"
    /\ served = "error" => {"code", "message"} \subseteq DOMAIN resp.body.obj

C24_Witness ==
  /\ served = "error"
  /\ resp.statusCode = 400
  /\ resp.body.obj.code = "bad_request"
  /\ "details" \in DOMAIN resp.body.obj
  /\ resp.body.obj.details # <<>>

\* C25 as stated: every response the dispatcher returns is an envelope of
\* the response builder, so it carries the CORS headers; no handler returns
\* a response object of its own making.
C25_ResponsesAreEnvelopes ==
  resp.statusCode # NoResp.statusCode =>
    /\ "headers" \in DOMAIN resp
    /\ DOMAIN CorsHeaders \subseteq DOMAIN resp.headers

\* C26: a request issues at most one store operation and never repeats it:
\* a command is handed to the store only by the receipt of a request, and
\* the step that settles it ends the request with a response. Either the
\* command was applied, or the store failed, nothing was written and the
\* response is 500 internal_server_error.
C26_OneStoreOperation ==
  [][\A r \in Slots :
       /\ (pc'[r] = "awaiting" /\ pc[r] # "awaiting") => requests' = requests + 1
       /\ pc[r] = "awaiting"
            => \/ pc'[r] = "awaiting" /\ cmd'[r] = cmd[r]
               \/ /\ pc'[r] = "idle" /\ cmd'[r].api = NoCmd.api
                  /\ requests' = requests
                  /\ \/ /\ store' = Execute(store, cmd[r]).store
                        /\ resp' = Catch(Resume(cmd[r], Execute(store, cmd[r]))).response
                     \/ store' = store /\ resp' = InternalServerError]_vars

C26_Witness ==
  /\ served = "createTicket"
  /\ resp = InternalServerError
  /\ created # {}
  /\ nextId - 1 \notin created

\* C27 as stated: the updatedAt of a ticket never decreases from one write
\* to the next, concurrent updates and patches of the same id included.
C27_UpdatedAtNeverDecreases ==
  [][\A k \in DOMAIN store \cap DOMAIN store' :
       store'[k].updatedAt >= store[k].updatedAt]_vars

\* C27 as amended: a successful update or patch stores the time its handler
\* read, and that time is not older than the updatedAt it replaces when no
\* other write of the id was applied while the request was in flight.
C27_UpdatedAtNeverDecreasesUnrivalled ==
  [][\A r \in Slots :
       (/\ Complete(r)
        /\ cmd[r].api \in {"updateTicket", "patchTicket"}
        /\ cmd[r].Key \in DOMAIN store)
       => /\ store'[cmd[r].Key].updatedAt = cmd[r].at
          /\ rivals[r] = {} => cmd[r].at >= store[cmd[r].Key].updatedAt]_vars

C27_Witness ==
  /\ served = "updateTicket" /\ Succeeded
  /\ winners = {}
  /\ resp.body.ticket.updatedAt > resp.body.ticket.createdAt
  /\ \E q \in Slots : pc[q] = "awaiting" /\ cmd[q].api = "patchTicket"
                      /\ cmd[q].Key = resp.body.ticket.id
                      /\ cmd[q].at < resp.body.ticket.updatedAt

\* ---- the status codes of the API
StatusCodes == {200, 201, 204, 400, 404, 500}

\* C28: the dispatcher is total: whatever the method, the path and the body
\* of the event, the invocation ends with exactly one response, whose status
\* is one of 200, 201, 204, 400, 404 and 500. The response comes with the
\* step that ends the invocation, at once or after its store call.
C28_DispatcherTotal ==
  [][/\ resp' = NoResp \/ resp'.statusCode \in StatusCodes
     /\ \A r \in Slots :
          LET e == event'
          IN /\ (e.httpMethod # "none" /\ Receive(r, e))
                  => IF pc'[r] = "awaiting" THEN resp' = NoResp
                     ELSE resp'.statusCode \in StatusCodes
             /\ (pc[r] = "awaiting" /\ pc'[r] = "idle") => resp'.statusCode \in StatusCodes]_vars

C28_Witness ==
  /\ event.httpMethod = "OPTIONS"
  /\ resp.statusCode = 404
  /\ DOMAIN store # {}

\* C29: getTicketById, getAllTickets and every request that ends in an error
\* response leave the store as it was; getAllTickets returns exactly the
\* stored records, the empty list when the store is empty.
C29_ReadsAndErrorsKeepStore ==
  [][/\ resp'.statusCode >= 400 => store' = store
     /\ served' \in {"getTicketById", "getAllTickets"} => store' = store
     /\ \A r \in Slots :
          (Complete(r) /\ cmd[r].api = "getAllTickets")
          => /\ resp'.statusCode = 200
             /\ resp'.body.tickets = {store[k] : k \in DOMAIN store}
             /\ DOMAIN store = {} => resp'.body.tickets = {}]_vars

C29_Witness ==
  /\ served = "getAllTickets"
  /\ resp.statusCode = 200
  /\ Cardinality(resp.body.tickets) = 2
  /\ Cardinality(DOMAIN store) = 2

\* C30: a GET, PUT, PATCH or DELETE whose path starts with /v1/tickets/ and
\* which brings no id parameter is answered 400 bad_request with the message
\* "Ticket ID is required", not 404; no handler runs and no store command is
\* issued, whatever the body.
C30_MissingIdIsBadRequest ==
  [][\A r \in Slots :
       LET e == event'
       IN (/\ e.httpMethod \in {"GET", "PUT", "PATCH", "DELETE"}
           /\ Receive(r, e)
           /\ StartsWithTickets(e.path)
           /\ e.pathParameters = NoId)
          => /\ resp' = BadRequest(<<"Ticket ID is required">>,
                                   << <<"Missing ticket ID parameter">> >>)
             /\ pc'[r] = "idle" /\ cmd'[r] = NoCmd
             /\ served' = NoCmd.api
             /\ store' = store]_vars

C30_Witness ==
  /\ event.httpMethod = "PUT"
  /\ StartsWithTickets(event.path)
  /\ event.pathParameters = NoId
  /\ event.body.kind = "text"
  /\ resp = BadRequest(<<"Ticket ID is required">>, << <<"Missing ticket ID parameter">> >>)
  /\ DOMAIN store # {}

====
